---- MODULE Spec2Model ----
(***************************************************************************)
(* A model of marksage: the todo-archival rewrite of a markdown syntax     *)
(* tree (src/src/archive.rs), the text normalizer (src/src/format_files.rs)*)
(* and the per-file command pipeline with its atomic file replacement      *)
(* (src/src/util.rs, src/src/main.rs, src/src/markdown_file.rs).           *)
(***************************************************************************)
EXTENDS Naturals, Sequences, FiniteSets, TLC

VARIABLES
    doc,        \* archive_markdown: the children of the input document's root
    result,     \* archive_markdown: the returned Option<MdastDocument>
    input,      \* archive_markdown: the root children the last pass was given
    passes,     \* archive_markdown: how many passes have run on this document
    cmd,        \* the command: "archive" or "format"
    writer,     \* who writes back: "apply_changes" or "for_each_unwrap"
    fs,         \* the vault directory: path -> file
    orig,       \* the vault directory when the command started
    pc,         \* per vault file: where its task is
    content,    \* per vault file: File.content as read by at_path
    newc,       \* per vault file: the content its task wants written
    failed,     \* per vault file: the I/O operation that failed on it
    faults,     \* how many I/O operations have failed
    status,     \* the running max() of apply_changes: <<>> is None
    panicked,   \* a task has panicked
    exited,     \* the process has ended
    exit_code,  \* its exit status
    mdtext,     \* the serializer: a markdown text
    tree,       \* the serializer: the root children that are rendered
    rendered,   \* the serializer: what render returned for tree
    again,      \* the serializer: what render returned for the parsed rendered
    rstep,      \* the serializer: "input", "parsed", "rendered" or "again"
    tpc,        \* per vault file: where the task is that the walk started
                \* on the temporary file of the file's overwrite
    tnewc,      \* per vault file: what that task made of the temporary file
    ccontent,   \* Changes: the content of the file the changes are made on
    changes,    \* Changes: the recorded changes, in the order recorded
    cresult,    \* Changes: what compute_new_content returned
    cstep       \* Changes: "content", "recording" or "computed"

avars == <<doc, result, input, passes>>

pvars == <<cmd, writer, fs, orig, pc, content, newc, failed, faults, status,
           panicked, exited, exit_code>>

rvars == <<mdtext, tree, rendered, again, rstep>>

svars == <<tpc, tnewc>>

cvars == <<ccontent, changes, cresult, cstep>>

vars == <<doc, result, input, passes, cmd, writer, fs, orig, pc, content, newc,
          failed, faults, status, panicked, exited, exit_code, mdtext, tree,
          rendered, again, rstep, tpc, tnewc, ccontent, changes, cresult, cstep>>

-----------------------------------------------------------------------------
(* Bounds *)

\* The largest document: root children that are not lists count one each,
\* a top-level list counts one per item.
MaxSize == 3

\* The markdown files of the vault are 1..NumFiles.
NumFiles == 2

\* How many I/O operations may fail during one run of a command.
MaxFaults == 2

\* The longest text, in lines.
MaxLines == 3

\* The most characters in the literals of a document that is formatted.
MaxText == 4

\* The largest tree built from nodes, in root children.
MaxNodes == 2

\* the length of an inline code value
MaxCode == 3

\* the number of children of an ordered list
MaxItems == 3

\* the number of rows and of columns of a table
MaxRows == 3

MaxCols == 2

\* the length of the content changes are recorded on
MaxContent == 3

\* the number of changes recorded
MaxChanges == 2

-----------------------------------------------------------------------------
(* mdast nodes (markdown::mdast::Node); Option<bool> is "true", "false" or  *)
(* "none"; a string is the sequence of its characters.                      *)

Text(v) == [type |-> "text", value |-> v]

Paragraph(ch) == [type |-> "paragraph", children |-> ch]

Heading(d, ch) == [type |-> "heading", depth |-> d, children |-> ch]

\* an unordered list: start is None (<<>>)
List(ch) == [type |-> "list", start |-> <<>>, children |-> ch]

\* an ordered list: start is Some(n) (<<n>>)
OrderedList(n, ch) == [type |-> "list", start |-> <<n>>, children |-> ch]

ListItem(c, ch) == [type |-> "listItem", checked |-> c, children |-> ch]

BlockQuote(ch) == [type |-> "blockquote", children |-> ch]

Code(lang, v) == [type |-> "code", lang |-> lang, value |-> v]

InlineCode(v) == [type |-> "inlineCode", value |-> v]

Emphasis(ch) == [type |-> "emphasis", children |-> ch]

Strong(ch) == [type |-> "strong", children |-> ch]

Delete(ch) == [type |-> "delete", children |-> ch]

Break == [type |-> "break"]

Link(url, ch) == [type |-> "link", url |-> url, children |-> ch]

Image(alt, url) == [type |-> "image", alt |-> alt, url |-> url]

ThematicBreak == [type |-> "thematicBreak"]

Html(v) == [type |-> "html", value |-> v]

ImageReference(alt, id) ==
    [type |-> "imageReference", alt |-> alt, identifier |-> id]

Definition(id, url) == [type |-> "definition", identifier |-> id, url |-> url]

FootnoteReference(id) == [type |-> "footnoteReference", identifier |-> id]

FootnoteDefinition(id, ch) ==
    [type |-> "footnoteDefinition", identifier |-> id, children |-> ch]

\* align: one of "left", "right", "center", "none" per column
Table(align, ch) == [type |-> "table", align |-> align, children |-> ch]

TableRow(ch) == [type |-> "tableRow", children |-> ch]

TableCell(ch) == [type |-> "tableCell", children |-> ch]

Math(v) == [type |-> "math", value |-> v]

InlineMath(v) == [type |-> "inlineMath", value |-> v]

Yaml(v) == [type |-> "yaml", value |-> v]

\* node kinds of markdown::mdast::Node that mdast_string has no arm for
LinkReference(id, ch) ==
    [type |-> "linkReference", identifier |-> id, children |-> ch]

Toml(v) == [type |-> "toml", value |-> v]

None == [tag |-> "None"]

Some(ch) == [tag |-> "Some", children |-> ch]

ArchivedText == <<"A", "r", "c", "h", "i", "v", "e", "d">>

ArchivedDepth == 2

-----------------------------------------------------------------------------
(* Sequence helpers: Vec::insert on 0-based indices.                        *)

\* Vec::insert(index, element): element ends up at 0-based position index.
Insert(s, index, e) ==
    SubSeq(s, 1, index) \o <<e>> \o SubSeq(s, index + 1, Len(s))

-----------------------------------------------------------------------------
(* archive_markdown                                                         *)

\* the closure of the find at archive.rs:15-18
IsArchivedHeading(node) ==
    /\ node.type = "heading"
    /\ node.depth = ArchivedDepth
    /\ Len(node.children) > 0
    /\ node.children[1].type = "text"
    /\ node.children[1].value = ArchivedText

IsList(node) == node.type = "list"

\* a classifier that looks at the item's own checkbox only
should_archive_own_checkbox(node) ==
    CASE node.type = "listItem" -> node.checked # "false"
      [] OTHER -> TRUE

\* a classifier that inspects the children of every kind of node
RECURSIVE should_archive_every_node(_)
should_archive_every_node(node) ==
    CASE node.type = "listItem" ->
            IF node.checked = "false" THEN FALSE
            ELSE \A i \in 1..Len(node.children) :
                    should_archive_every_node(node.children[i])
      [] "children" \in DOMAIN node ->
            \A i \in 1..Len(node.children) :
                should_archive_every_node(node.children[i])
      [] OTHER -> TRUE

\* a classifier under which an item without a checkbox never qualifies
RECURSIVE should_archive_checked_only(_)
should_archive_checked_only(node) ==
    CASE node.type = "listItem" ->
            IF node.checked # "true" THEN FALSE
            ELSE \A i \in 1..Len(node.children) :
                    should_archive_checked_only(node.children[i])
      [] node.type = "list" ->
            \A i \in 1..Len(node.children) :
                should_archive_checked_only(node.children[i])
      [] OTHER -> TRUE

RECURSIVE should_archive(_)
should_archive(node) ==
    CASE node.type = "listItem" ->
            IF node.checked = "false" THEN FALSE
            ELSE \A i \in 1..Len(node.children) : should_archive(node.children[i])
      [] node.type = "list" ->
            \A i \in 1..Len(node.children) : should_archive(node.children[i])
      [] OTHER -> TRUE

\* archive.rs:285-290: the closure of the filter_map
Qualifies(node) == node.type = "listItem" /\ should_archive(node)

\* archive.rs:282-291: the items of a list's children that are moved, in order
RECURSIVE ArchivedItems(_)
ArchivedItems(items) ==
    IF items = <<>> THEN <<>>
    ELSE (IF Qualifies(Head(items)) THEN <<Head(items)>> ELSE <<>>)
         \o ArchivedItems(Tail(items))

\* archive.rs:12-19: 0-based index of the first Archived heading, or -1 coded
\* as Len: FoundAt is defined only where HasArchived holds.
HasArchived(children) ==
    \E i \in 1..Len(children) : IsArchivedHeading(children[i])

FoundAt(children) ==
    (CHOOSE i \in 1..Len(children) :
        /\ IsArchivedHeading(children[i])
        /\ \A j \in 1..(i - 1) : ~IsArchivedHeading(children[j])) - 1

\* the insertion point taken after the first List instead of the last
LastList_first_list(children) ==
    IF \E i \in 1..Len(children) : IsList(children[i])
    THEN CHOOSE i \in 1..Len(children) :
            /\ IsList(children[i])
            /\ \A j \in 1..(i - 1) : ~IsList(children[j])
    ELSE Len(children)

\* archive.rs:30-36: one past the 0-based index of the last List, or len
LastList(children) ==
    IF \E i \in 1..Len(children) : IsList(children[i])
    THEN CHOOSE i \in 1..Len(children) :
            /\ IsList(children[i])
            /\ \A j \in (i + 1)..Len(children) : ~IsList(children[j])
    ELSE Len(children)

SynthesizedHeading == Heading(ArchivedDepth, <<Text(ArchivedText)>>)

\* archive.rs:12-45
ArchivedSection(children) ==
    IF HasArchived(children) THEN FoundAt(children) ELSE LastList(children)

\* new_mdast after archive.rs:12-45
WithHeading(children) ==
    IF HasArchived(children) THEN children
    ELSE Insert(children, LastList(children), SynthesizedHeading)

\* the loop without take(archived_section): every root child is scanned
RECURSIVE ArchiveLoop_whole_document(_, _, _, _)
ArchiveLoop_whole_document(children, archived_section, i, new_mdast) ==
    IF i >= Len(children) THEN new_mdast
    ELSE LET node == children[i + 1]
             moved == IF IsList(node) THEN ArchivedItems(node.children) ELSE <<>>
         IN  IF moved # <<>>
             THEN ArchiveLoop_whole_document(children, archived_section, i + 1,
                      Insert(new_mdast, archived_section + 1,
                             [node EXCEPT !.children = moved]))
             ELSE ArchiveLoop_whole_document(children, archived_section, i + 1,
                                             new_mdast)

\* archive.rs:273-297: the loop over the first archived_section children of
\* the input, i the number of children already visited
RECURSIVE ArchiveLoop(_, _, _, _)
ArchiveLoop(children, archived_section, i, new_mdast) ==
    IF i >= archived_section THEN new_mdast
    ELSE LET node == children[i + 1]
             archived_list ==
                 IF IsList(node)
                 THEN [node EXCEPT !.children = ArchivedItems(node.children)]
                 ELSE node
         IN  IF IsList(node) /\ archived_list.children # <<>>
             THEN ArchiveLoop(children, archived_section, i + 1,
                      Insert(new_mdast, archived_section + 1, archived_list))
             ELSE ArchiveLoop(children, archived_section, i + 1, new_mdast)

\* archive.rs:6-306
archive_markdown(children) ==
    Some(ArchiveLoop(children, ArchivedSection(children), 0, WithHeading(children)))

-----------------------------------------------------------------------------
(* format_files.rs: the text normalizer                                     *)

EmDash == "EMDASH"

\* Regex::replace: only the leftmost match is replaced
RECURSIVE text_replace_first_match(_)
text_replace_first_match(text) ==
    IF Len(text) >= 2 /\ text[1] = "-" /\ text[2] = "-"
    THEN <<EmDash>> \o SubSeq(text, 3, Len(text))
    ELSE IF text = <<>> THEN <<>>
    ELSE <<text[1]>> \o text_replace_first_match(Tail(text))

\* format_files.rs:17-22: Regex "(--)" replace_all, leftmost matches first,
\* matches do not overlap
RECURSIVE text_replace(_)
text_replace(text) ==
    IF Len(text) >= 2 /\ text[1] = "-" /\ text[2] = "-"
    THEN <<EmDash>> \o text_replace(SubSeq(text, 3, Len(text)))
    ELSE IF text = <<>> THEN <<>>
    ELSE <<text[1]>> \o text_replace(Tail(text))

\* a normalizer that rewrites every literal value, not only that of a Text
RECURSIVE format_node_every_value(_)
format_node_every_value(node) ==
    IF "value" \in DOMAIN node
    THEN [node EXCEPT !.value = text_replace(node.value)]
    ELSE IF "children" \in DOMAIN node
    THEN [node EXCEPT !.children =
             [i \in 1..Len(node.children) |->
                 format_node_every_value(node.children[i])]]
    ELSE node

\* format_files.rs:24-47
RECURSIVE format_node(_)
format_node(node) ==
    IF node.type = "text" THEN Text(text_replace(node.value))
    ELSE IF "children" \in DOMAIN node
    THEN [node EXCEPT !.children =
             [i \in 1..Len(node.children) |-> format_node(node.children[i])]]
    ELSE node

\* format_files.rs:49-60: the new body; the Root node is its children
format_document(children) ==
    Some([i \in 1..Len(children) |-> format_node(children[i])])

-----------------------------------------------------------------------------
(* markdown_file.rs: the serializer. A String is the sequence of its        *)
(* characters; a call either returns a String or panics.                    *)

NL == "\n"

\* the backtick character
Backtick == "BACKTICK"

\* a character of display width 2 (UnicodeWidthStr::width)
Wide == "WIDE"

\* a call that returned the String s
Ok(s) == [panic |-> FALSE, s |-> s]

\* a call that panicked
Panic == [panic |-> TRUE, s |-> <<>>]

Max(S) == CHOOSE x \in S : \A y \in S : y <= x

\* str::repeat
Repeat(c, n) == [i \in 1..n |-> c]

\* the decimal digits of n, as format!("{n}") writes them
DigitChar(d) == <<"0", "1", "2", "3", "4", "5", "6", "7", "8", "9">>[d + 1]

RECURSIVE Digits(_)
Digits(n) ==
    IF n < 10 THEN <<DigitChar(n)>>
    ELSE Digits(n \div 10) \o <<DigitChar(n % 10)>>

\* collect::<String>() of a sequence of Strings
RECURSIVE Concat(_)
Concat(strs) ==
    IF strs = <<>> THEN <<>> ELSE Head(strs) \o Concat(Tail(strs))

\* Vec<String>::join(sep)
RECURSIVE JoinStr(_, _)
JoinStr(strs, sep) ==
    IF strs = <<>> THEN <<>>
    ELSE IF Len(strs) = 1 THEN strs[1]
    ELSE strs[1] \o sep \o JoinStr(Tail(strs), sep)

\* the same over the results of calls: a panic in any of them is a panic
Join(rs, sep) ==
    IF \E i \in 1..Len(rs) : rs[i].panic THEN Panic
    ELSE Ok(JoinStr([i \in 1..Len(rs) |-> rs[i].s], sep))

\* where the lines of s end: at each line terminator, and past the last
\* character when s does not end with one
LineEnds(s) ==
    {i \in 1..Len(s) : s[i] = NL}
        \cup (IF s # <<>> /\ s[Len(s)] # NL THEN {Len(s) + 1} ELSE {})

\* str::lines: the lines of s without their terminators; a final line
\* terminator yields no empty last line
Lines(s) ==
    LET ends == LineEnds(s)
        end(k) == CHOOSE e \in ends : Cardinality({x \in ends : x < e}) = k - 1
        start(k) == IF k = 1 THEN 1 ELSE end(k - 1) + 1
    IN  [k \in 1..Cardinality(ends) |-> SubSeq(s, start(k), end(k) - 1)]

\* str::ends_with('\n')
EndsWithNL(s) == s # <<>> /\ s[Len(s)] = NL

\* UnicodeWidthStr::width
RECURSIVE UnicodeWidth(_)
UnicodeWidth(s) ==
    IF s = <<>> THEN 0
    ELSE (IF Head(s) = Wide THEN 2 ELSE 1) + UnicodeWidth(Tail(s))

\* markdown_file.rs:78-92: the loop, longest and count being its variables
RECURSIVE CountLoop(_, _, _, _)
CountLoop(s, c, longest, count) ==
    IF s = <<>> THEN longest
    ELSE IF Head(s) = c THEN CountLoop(Tail(s), c, longest, count + 1)
    ELSE CountLoop(Tail(s), c, IF count > longest THEN count ELSE longest, 0)

count_longest_sequential_chars(s, c) == CountLoop(s, c, 0, 0)

\* markdown_file.rs:94-98: Context; an Option is <<>> or <<value>>
Context(index, indent) == [list_index |-> index, list_indent |-> indent]

ContextDefault == Context(<<>>, <<>>)

\* an unexpected node renders as nothing
UnexpectedNode_skipped(node) == Ok(<<>>)

\* markdown_file.rs:327: panic!("Unexpected node type ...")
UnexpectedNode(node) == Panic

\* every alignment taken to need one character only
AlignWidth_one(align) == 1

\* markdown_file.rs:255-259: the least width of a column of this alignment
AlignWidth(align) ==
    CASE align \in {"left", "right"} -> 2
      [] align = "center" -> 3
      [] OTHER -> 1

\* usize subtraction: <<a - b>>, or <<>> when the result would be below zero
\* (the debug build panics on the overflow, the release build wraps to a
\* count no repeat can allocate: both end the program)
CheckedSub(a, b) == IF a >= b THEN <<a - b>> ELSE <<>>

\* markdown_file.rs:281-287: the number of hyphens in the delimiter of a
\* column of width len
DelimHyphens(align, len) ==
    CASE align \in {"left", "right"} -> CheckedSub(len, 1)
      [] align = "center" -> CheckedSub(len, 2)
      [] OTHER -> <<len>>

\* markdown_file.rs:281-287: the delimiter of a column with hyphens hyphens
DelimCell(align, hyphens) ==
    CASE align = "left" -> <<":">> \o Repeat("-", hyphens)
      [] align = "center" -> <<":">> \o Repeat("-", hyphens) \o <<":">>
      [] align = "right" -> Repeat("-", hyphens) \o <<":">>
      [] OTHER -> Repeat("-", hyphens)

\* the delimiter written before every row but the first
DelimHere_every_row(i, n) == i # 0 /\ i % n = 0

\* markdown_file.rs:293: the delimiter is written before the cell of 0-based
\* index i of a table of n columns
DelimHere(i, n) == i # 0 /\ i <= n /\ i % n = 0

\* no delimiter is written after a table of one row
KeepDelim_never(rows) == FALSE

\* markdown_file.rs:318: the delimiter is written after a table of one row
KeepDelim(rows) == rows = 1

\* markdown_file.rs:298-311: a cell padded to the width of its column
PadCell(align, cell_string, pad_len) ==
    CASE align \in {"left", "none"} ->
            <<"|", " ">> \o cell_string \o Repeat(" ", pad_len) \o <<" ">>
      [] align = "right" ->
            <<"|", " ">> \o Repeat(" ", pad_len) \o cell_string \o <<" ">>
      [] OTHER ->
            <<"|", " ">> \o Repeat(" ", pad_len \div 2) \o cell_string
                \o Repeat(" ", (pad_len + 1) \div 2) \o <<" ">>

RECURSIVE mdast_string(_, _)

\* markdown_file.rs:100-106
recursive_mdast_string(ctx, nodes, sep) ==
    Join([i \in 1..Len(nodes) |-> mdast_string(nodes[i], ctx)], sep)

\* markdown_file.rs:108-115: pairs of a node and its context
recursive_contextual_mdast_string(nodes) ==
    Join([i \in 1..Len(nodes) |-> mdast_string(nodes[i][1], nodes[i][2])], <<>>)

\* a counter that every child of the list consumes a value of
inc_every_child(start, children, i) == start + (i - 1)

\* markdown_file.rs:153-158: the value inc() returns for the child at
\* position i: start plus the number of ListItem children before it. The
\* counter is a u32; the parser reads a start of at most nine digits, so it
\* stays far below 2^32 for the lists of a parsed document.
inc(start, children, i) ==
    start + Cardinality({j \in 1..(i - 1) : children[j].type = "listItem"})

\* markdown_file.rs:141-177
ListString(l, ctx) ==
    LET list_indent ==
            IF ctx.list_indent = <<>> THEN <<0>> ELSE <<ctx.list_indent[1] + 1>>
    IN  IF l.start = <<>>
        THEN recursive_mdast_string(Context(<<>>, list_indent), l.children, <<>>)
        ELSE recursive_contextual_mdast_string(
                 [i \in 1..Len(l.children) |->
                     IF l.children[i].type = "listItem"
                     THEN <<l.children[i],
                            Context(<<inc(l.start[1], l.children, i)>>, list_indent)>>
                     ELSE <<l.children[i], Context(<<>>, list_indent)>>])

\* markdown_file.rs:178-198
ListItemString(li, ctx) ==
    Join(<< Ok(Repeat(" ", (IF ctx.list_indent = <<>> THEN 0
                            ELSE ctx.list_indent[1]) * 4)),
            Ok(IF ctx.list_index = <<>> THEN <<"-">>
               ELSE Digits(ctx.list_index[1]) \o <<".">>),
            Ok(<<" ">>),
            Ok(CASE li.checked = "true" -> <<"[", "x", "]", " ">>
                 [] li.checked = "false" -> <<"[", " ", "]", " ">>
                 [] OTHER -> <<>>),
            recursive_mdast_string(Context(<<>>, ctx.list_indent),
                                   li.children, <<>>) >>, <<>>)

\* markdown_file.rs:221-224
BlockQuoteString(b, ctx) ==
    LET r == recursive_mdast_string(ctx, b.children, <<>>)
        ls == Lines(r.s)
    IN  IF r.panic THEN Panic
        ELSE Ok(Concat([i \in 1..Len(ls) |-> <<">", " ">> \o ls[i] \o <<NL>>]))

\* markdown_file.rs:230-244
FootnoteDefinitionString(f, ctx) ==
    LET block(i) ==
            LET r == mdast_string(f.children[i], ctx)
                ls == Lines(r.s)
            IN  IF r.panic THEN Panic
                ELSE Ok(Concat([k \in 1..Len(ls) |->
                            (IF i = 1 THEN <<>> ELSE Repeat(" ", 4))
                                \o ls[k] \o <<NL>>]))
    IN  Join(<< Ok(<<"[", "^">> \o f.identifier \o <<"]", ":", " ">>),
                Join([i \in 1..Len(f.children) |-> block(i)], <<NL>>) >>, <<>>)

\* markdown_file.rs:245-323
TableString(t, ctx) ==
    LET n == Len(t.align)
        rows == Len(t.children)
        \* table_skeleton[(r - 1) * n + (c - 1)]: <<>> is None
        cell(r, c) ==
            IF /\ t.children[r].type = "tableRow"
               /\ c <= Len(t.children[r].children)
               /\ t.children[r].children[c].type = "tableCell"
            THEN <<recursive_mdast_string(
                      ctx, t.children[r].children[c].children, <<>>)>>
            ELSE <<>>
        present == {rc \in (1..rows) \X (1..n) : cell(rc[1], rc[2]) # <<>>}
        longest ==
            [c \in 1..n |->
                Max({AlignWidth(t.align[c])}
                    \cup {UnicodeWidth(cell(rc[1], rc[2])[1].s) :
                             rc \in {x \in present : x[2] = c}})]
        hyphens == [c \in 1..n |-> DelimHyphens(t.align[c], longest[c])]
        pad_len(r, c) == CheckedSub(longest[c], UnicodeWidth(cell(r, c)[1].s))
        delim ==
            <<"|", " ">>
                \o JoinStr([c \in 1..n |-> DelimCell(t.align[c], hyphens[c][1])],
                           <<" ", "|", " ">>)
                \o <<" ", "|", NL>>
        \* what the iteration for the 0-based index i adds to s
        piece(i) ==
            LET r == (i \div n) + 1
                c == (i % n) + 1
            IN  (IF DelimHere(i, n) THEN delim ELSE <<>>)
                \o (IF cell(r, c) # <<>>
                    THEN PadCell(t.align[c], cell(r, c)[1].s, pad_len(r, c)[1])
                    ELSE <<>>)
                \o (IF i % n = n - 1 THEN <<"|", NL>> ELSE <<>>)
    IN  IF \E rc \in present : cell(rc[1], rc[2])[1].panic THEN Panic
        ELSE IF \E c \in 1..n : hyphens[c] = <<>> THEN Panic
        ELSE IF \E rc \in present : pad_len(rc[1], rc[2]) = <<>> THEN Panic
        ELSE Ok(Concat([k \in 1..(rows * n) |-> piece(k - 1)])
                \o (IF KeepDelim(rows) THEN delim ELSE <<>>))

\* markdown_file.rs:129-329
mdast_string(node, ctx) ==
    CASE node.type = "root" -> recursive_mdast_string(ctx, node.children, <<>>)
      [] node.type = "heading" ->
            Join(<< Ok(Repeat("#", node.depth)), Ok(<<" ">>),
                    recursive_mdast_string(ctx, node.children, <<>>),
                    Ok(<<NL>>) >>, <<>>)
      [] node.type = "text" -> Ok(node.value)
      [] node.type = "paragraph" ->
            Join(<< recursive_mdast_string(ctx, node.children, <<>>),
                    Ok(<<NL>>) >>, <<>>)
      [] node.type = "list" -> ListString(node, ctx)
      [] node.type = "listItem" -> ListItemString(node, ctx)
      [] node.type = "code" ->
            Ok(<<Backtick, Backtick, Backtick>> \o node.lang \o <<NL>> \o node.value
                   \o <<NL, Backtick, Backtick, Backtick, NL>>)
      [] node.type = "inlineCode" ->
            LET backtick ==
                    Repeat(Backtick, count_longest_sequential_chars(node.value, Backtick) + 1)
            IN  Ok(backtick \o node.value \o backtick)
      [] node.type = "emphasis" ->
            Join(<< Ok(<<"*">>),
                    recursive_mdast_string(ctx, node.children, <<>>),
                    Ok(<<"*">>) >>, <<>>)
      [] node.type = "strong" ->
            Join(<< Ok(<<"*", "*">>),
                    recursive_mdast_string(ctx, node.children, <<>>),
                    Ok(<<"*", "*">>) >>, <<>>)
      [] node.type = "delete" ->
            Join(<< Ok(<<"~", "~">>),
                    recursive_mdast_string(ctx, node.children, <<>>),
                    Ok(<<"~", "~">>) >>, <<>>)
      [] node.type = "break" -> Ok(<<NL>>)
      [] node.type = "link" ->
            LET text == recursive_mdast_string(ctx, node.children, <<>>)
            IN  IF text.panic THEN Panic
                ELSE IF node.url = text.s
                THEN Ok(<<"<">> \o text.s \o <<">">>)
                ELSE Ok(<<"[">> \o text.s \o <<"]", "(">> \o node.url \o <<")">>)
      [] node.type = "image" ->
            Ok(<<"!", "[">> \o node.alt \o <<"]", "(">> \o node.url \o <<")">>)
      [] node.type = "blockquote" -> BlockQuoteString(node, ctx)
      [] node.type = "thematicBreak" -> Ok(<<"-", "-", "-", NL>>)
      [] node.type = "html" -> Ok(node.value)
      [] node.type = "imageReference" ->
            Ok(<<"!", "[">> \o node.alt \o <<"]", "[">> \o node.identifier
                   \o <<"]">>)
      [] node.type = "definition" ->
            Ok(<<"[">> \o node.identifier \o <<"]", ":", " ">> \o node.url)
      [] node.type = "footnoteReference" ->
            Ok(<<"[", "^">> \o node.identifier \o <<"]">>)
      [] node.type = "footnoteDefinition" -> FootnoteDefinitionString(node, ctx)
      [] node.type = "table" -> TableString(node, ctx)
      [] node.type = "math" ->
            Ok(<<"$", "$", NL>> \o node.value \o <<NL, "$", "$">>)
      [] node.type = "inlineMath" -> Ok(<<"$">> \o node.value \o <<"$">>)
      [] node.type = "yaml" ->
            Ok(<<"-", "-", "-", NL>> \o node.value \o <<NL, "-", "-", "-", NL>>)
      [] OTHER -> UnexpectedNode(node)

\* markdown_file.rs:66-75: MdastDocument::render of the root's children
render(children) ==
    LET rs == [i \in 1..Len(children) |->
                  mdast_string(children[i], ContextDefault)]
    IN  IF \E i \in 1..Len(rs) : rs[i].panic THEN Panic
        ELSE Ok(JoinStr([i \in 1..Len(rs) |->
                            rs[i].s \o (IF EndsWithNL(rs[i].s) THEN <<>>
                                        ELSE <<NL>>)],
                        <<NL>>))

-----------------------------------------------------------------------------
(* The documents archive_markdown is applied to                             *)

PlainParagraph == Paragraph(<<Text(<<"t">>)>>)

Leaf(c) == ListItem(c, <<PlainParagraph>>)

Nested(c, sub) == ListItem(c, <<PlainParagraph, List(<<sub>>)>>)

Quoted(c, sub) == ListItem(c, <<PlainParagraph, BlockQuote(<<List(<<sub>>)>>)>>)

Items ==
    { Leaf("true"), Leaf("false"), Leaf("none"),
      Nested("true", Leaf("false")), Nested("true", Leaf("true")),
      Nested("none", Leaf("true")), Nested("false", Leaf("true")),
      Nested("true", Nested("true", Leaf("false"))),
      Quoted("true", Leaf("false")),
      Nested("true", Leaf("none")) }

\* a level-2 heading whose content is Archived followed by an emphasis
LongerHeading ==
    Heading(ArchivedDepth, <<Text(ArchivedText), Emphasis(<<Text(<<"t">>)>>)>>)

\* an Archived heading that is not a child of the root
NestedHeading == BlockQuote(<<Heading(ArchivedDepth, <<Text(ArchivedText)>>)>>)

OtherTop ==
    { PlainParagraph,
      Heading(ArchivedDepth, <<Text(ArchivedText)>>),
      Heading(ArchivedDepth + 1, <<Text(ArchivedText)>>),
      LongerHeading,
      NestedHeading }

\* the size of a document: a root child that is not a list counts one, a
\* top-level list counts one per item
RECURSIVE DocSize(_)
DocSize(children) ==
    IF children = <<>> THEN 0
    ELSE (IF IsList(Head(children)) THEN Len(Head(children).children) ELSE 1)
         + DocSize(Tail(children))

-----------------------------------------------------------------------------
(* The vault: files, paths and the per-file pipeline                        *)

Files == 1..NumFiles

\* the path of vault file f: its stem and its extension
Path(f) == <<f, "md">>

\* an in-place write: the destination itself is written
tmp_path_in_place(path) == path

\* markdown_file.rs:21-28: path.with_extension("tmp{random}.{extension}");
\* the random u64 is taken to give a name no other file of the vault has
tmp_path(path) ==
    SubSeq(path, 1, Len(path) - 1) \o <<"tmp", path[Len(path)]>>

Paths ==
    {Path(f) : f \in Files}
        \cup {tmp_path(Path(f)) : f \in Files}
        \cup {tmp_path(tmp_path(Path(f))) : f \in Files}

Absent == [exists |-> FALSE, data |-> <<>>]

FileOf(data) == [exists |-> TRUE, data |-> data]

\* a file's content is the root children it parses to and is rendered from
DocChanging ==
    << Paragraph(<<Text(<<"a", "-", "-", "b">>)>>), List(<<Leaf("true")>>) >>

DocSettled == << PlainParagraph, SynthesizedHeading >>

Contents == {DocChanging, DocSettled}

\* archive.rs:310-311 and format_files.rs:64-69: parse, then the transform
\* of the command under filter_map
Transform(data) ==
    IF cmd = "archive" THEN archive_markdown(data) ELSE format_document(data)

\* the exit status of a process that panicked
PanicStatus == 101

\* the result of the latest task replaces the running status
StatusLast(st, code) == <<code>>

\* main.rs:141: Iterator::max over the per-file codes, one code at a time
StatusMax(st, code) ==
    IF st = <<>> THEN <<code>>
    ELSE IF code > st[1] THEN <<code>>
    ELSE st

InFlight == {"yielded", "read", "writing", "written"}

ArchiveIdle ==
    /\ doc = <<>>
    /\ result = None
    /\ input = <<>>
    /\ passes = 0

RenderIdle ==
    /\ mdtext = <<>>
    /\ tree = <<>>
    /\ rendered = Ok(<<>>)
    /\ again = Ok(<<>>)
    /\ rstep = "input"

StrayIdle ==
    /\ tpc = [f \in Files |-> "unseen"]
    /\ tnewc = [f \in Files |-> <<>>]

ChangesIdle ==
    /\ ccontent = <<>>
    /\ changes = <<>>
    /\ cresult = Ok(<<>>)
    /\ cstep = "content"

PipelineIdle ==
    /\ cmd = "archive"
    /\ writer = "apply_changes"
    /\ fs = [p \in Paths |-> Absent]
    /\ orig = [p \in Paths |-> Absent]
    /\ pc = [f \in Files |-> "unseen"]
    /\ content = [f \in Files |-> <<>>]
    /\ newc = [f \in Files |-> <<>>]
    /\ failed = [f \in Files |-> "none"]
    /\ faults = 0
    /\ status = <<>>
    /\ panicked = FALSE
    /\ exited = FALSE
    /\ exit_code = 0

\* main.rs:144-149: a command starts on a vault of markdown files
PipelineInit ==
    /\ cmd \in {"archive", "format"}
    /\ writer \in {"apply_changes", "for_each_unwrap"}
    /\ fs \in {g \in [Paths -> {Absent} \cup {FileOf(c) : c \in Contents}] :
                 \A p \in Paths : g[p].exists => \E f \in Files : p = Path(f)}
    /\ orig = fs
    /\ pc = [f \in Files |-> "unseen"]
    /\ content = [f \in Files |-> <<>>]
    /\ newc = [f \in Files |-> <<>>]
    /\ failed = [f \in Files |-> "none"]
    /\ faults = 0
    /\ status = <<>>
    /\ panicked = FALSE
    /\ exited = FALSE
    /\ exit_code = 0

\* main.rs:131-139 under apply_changes, archive.rs:313 and
\* format_files.rs:73 (for_each(Result::unwrap)) otherwise: an Err result
OnErr(f, op) ==
    /\ failed' = [failed EXCEPT ![f] = op]
    /\ faults' = faults + 1
    /\ pc' = [pc EXCEPT ![f] = "failed"]
    /\ IF writer = "apply_changes"
       THEN status' = StatusMax(status, 1) /\ UNCHANGED panicked
       ELSE panicked' = TRUE /\ UNCHANGED status

\* the same places: an Ok result
OnOk(f) ==
    /\ pc' = [pc EXCEPT ![f] = "done"]
    /\ status' = IF writer = "apply_changes" THEN StatusMax(status, 0) ELSE status
    /\ UNCHANGED <<failed, faults, panicked>>

\* util.rs:63-69: the directory walk yields the entry of a vault file to a
\* worker
Walk(f) ==
    /\ ~exited
    /\ pc[f] = "unseen"
    /\ fs[Path(f)].exists
    /\ pc' = [pc EXCEPT ![f] = "yielded"]
    /\ UNCHANGED <<cmd, writer, fs, orig, content, newc, failed, faults, status,
                   panicked, exited, exit_code>>
    /\ UNCHANGED avars
    /\ UNCHANGED rvars
    /\ UNCHANGED svars
    /\ UNCHANGED cvars

\* util.rs:70 File::at_path(..).unwrap(), then parse, transform and render
Read(f) ==
    /\ ~exited
    /\ pc[f] = "yielded"
    /\ \/ /\ fs[Path(f)].exists
          /\ content' = [content EXCEPT ![f] = fs[Path(f)].data]
          /\ LET r == Transform(fs[Path(f)].data)
             IN  IF r.tag = "None"
                 THEN pc' = [pc EXCEPT ![f] = "skipped"] /\ UNCHANGED newc
                 ELSE /\ pc' = [pc EXCEPT ![f] = "read"]
                      /\ newc' = [newc EXCEPT ![f] = r.children]
          /\ UNCHANGED <<failed, faults, panicked>>
       \/ /\ faults < MaxFaults
          /\ failed' = [failed EXCEPT ![f] = "read"]
          /\ faults' = faults + 1
          /\ panicked' = TRUE
          /\ pc' = [pc EXCEPT ![f] = "failed"]
          /\ UNCHANGED <<content, newc>>
    /\ UNCHANGED <<cmd, writer, fs, orig, status, exited, exit_code>>
    /\ UNCHANGED avars
    /\ UNCHANGED rvars
    /\ UNCHANGED svars
    /\ UNCHANGED cvars

\* markdown_file.rs:29 fs::write: the temporary file is created or truncated
WriteBegin(f) ==
    /\ ~exited
    /\ pc[f] = "read"
    /\ \/ /\ fs' = [fs EXCEPT ![tmp_path(Path(f))] = FileOf(<<>>)]
          /\ pc' = [pc EXCEPT ![f] = "writing"]
          /\ UNCHANGED <<failed, faults, status, panicked>>
       \/ /\ faults < MaxFaults
          /\ OnErr(f, "write")
          /\ UNCHANGED fs
    /\ UNCHANGED <<cmd, writer, orig, content, newc, exited, exit_code>>
    /\ UNCHANGED avars
    /\ UNCHANGED rvars
    /\ UNCHANGED svars
    /\ UNCHANGED cvars

\* markdown_file.rs:29 fs::write: the content is written; a failure leaves a
\* part of it
WriteEnd(f) ==
    /\ ~exited
    /\ pc[f] = "writing"
    /\ \/ /\ fs' = [fs EXCEPT ![tmp_path(Path(f))] = FileOf(newc[f])]
          /\ pc' = [pc EXCEPT ![f] = "written"]
          /\ UNCHANGED <<failed, faults, status, panicked>>
       \/ /\ faults < MaxFaults
          /\ \E k \in 0..(Len(newc[f]) - 1) :
                fs' = [fs EXCEPT ![tmp_path(Path(f))] =
                          FileOf(SubSeq(newc[f], 1, k))]
          /\ OnErr(f, "write")
    /\ UNCHANGED <<cmd, writer, orig, content, newc, exited, exit_code>>
    /\ UNCHANGED avars
    /\ UNCHANGED rvars
    /\ UNCHANGED svars
    /\ UNCHANGED cvars

\* markdown_file.rs:30 fs::rename(tmp_path, path)
Rename(f) ==
    /\ ~exited
    /\ pc[f] = "written"
    /\ \/ /\ fs' = [fs EXCEPT ![Path(f)] = fs[tmp_path(Path(f))],
                              ![tmp_path(Path(f))] = Absent]
          /\ OnOk(f)
       \/ /\ faults < MaxFaults
          /\ OnErr(f, "rename")
          /\ UNCHANGED fs
    /\ UNCHANGED <<cmd, writer, orig, content, newc, exited, exit_code>>
    /\ UNCHANGED avars
    /\ UNCHANGED rvars
    /\ UNCHANGED svars
    /\ UNCHANGED cvars

\* main.rs:155-157: the process ends once no task is running: after the walk
\* is exhausted, or earlier when a panic unwinds out of the parallel iterator
Exit ==
    /\ ~exited
    /\ \A f \in Files : pc[f] \notin InFlight
    /\ \/ panicked
       \/ \A f \in Files : fs[Path(f)].exists => pc[f] # "unseen"
    /\ exited' = TRUE
    /\ exit_code' = IF panicked THEN PanicStatus
                    ELSE IF status = <<>> THEN 0
                    ELSE status[1]
    /\ UNCHANGED <<cmd, writer, fs, orig, pc, content, newc, failed, faults,
                   status, panicked>>
    /\ UNCHANGED avars
    /\ UNCHANGED rvars
    /\ UNCHANGED svars
    /\ UNCHANGED cvars

Next ==
    \/ \E f \in Files : Walk(f)
    \/ \E f \in Files : Read(f)
    \/ \E f \in Files : WriteBegin(f)
    \/ \E f \in Files : WriteEnd(f)
    \/ \E f \in Files : Rename(f)
    \/ Exit

Init == PipelineInit /\ ArchiveIdle /\ RenderIdle /\ StrayIdle /\ ChangesIdle

Spec == Init /\ [][Next]_vars

-----------------------------------------------------------------------------
(* The walk and the temporary files: the directory walk is lazy and runs    *)
(* while the tasks write, and a temporary file has the extension of its     *)
(* destination. Whether the walk returns an entry created while a           *)
(* directory is being read is left open by readdir: both outcomes occur.    *)

\* the walk has not reached the end of the vault: an entry that was there
\* when the command started is still to be yielded
Walking == \E g \in Files : pc[g] = "unseen" /\ fs[Path(g)].exists

\* util.rs:63-69: the walk yields the entry of the temporary file of f, a
\* visible file of extension md
WalkTmp(f) ==
    /\ ~exited
    /\ Walking
    /\ tpc[f] = "unseen"
    /\ tmp_path(Path(f)) # Path(f)
    /\ fs[tmp_path(Path(f))].exists
    /\ tpc' = [tpc EXCEPT ![f] = "yielded"]
    /\ UNCHANGED tnewc
    /\ UNCHANGED pvars
    /\ UNCHANGED avars
    /\ UNCHANGED rvars
    /\ UNCHANGED cvars

\* util.rs:70 File::at_path(..).unwrap() on the temporary file, then parse,
\* transform and render; the file is gone when its task has renamed it
ReadTmp(f) ==
    /\ ~exited
    /\ tpc[f] = "yielded"
    /\ IF fs[tmp_path(Path(f))].exists
       THEN LET r == Transform(fs[tmp_path(Path(f))].data)
            IN  /\ IF r.tag = "None"
                   THEN tpc' = [tpc EXCEPT ![f] = "skipped"] /\ UNCHANGED tnewc
                   ELSE /\ tpc' = [tpc EXCEPT ![f] = "read"]
                        /\ tnewc' = [tnewc EXCEPT ![f] = r.children]
                /\ UNCHANGED panicked
       ELSE /\ tpc' = [tpc EXCEPT ![f] = "failed"]
            /\ panicked' = TRUE
            /\ UNCHANGED tnewc
    /\ UNCHANGED <<cmd, writer, fs, orig, pc, content, newc, failed, faults,
                   status, exited, exit_code>>
    /\ UNCHANGED avars
    /\ UNCHANGED rvars
    /\ UNCHANGED cvars

\* markdown_file.rs:21-29: atomic_overwrite of the temporary file writes a
\* temporary file of its own
WriteTmp(f) ==
    /\ ~exited
    /\ tpc[f] = "read"
    /\ fs' = [fs EXCEPT ![tmp_path(tmp_path(Path(f)))] = FileOf(tnewc[f])]
    /\ tpc' = [tpc EXCEPT ![f] = "written"]
    /\ UNCHANGED tnewc
    /\ UNCHANGED <<cmd, writer, orig, pc, content, newc, failed, faults, status,
                   panicked, exited, exit_code>>
    /\ UNCHANGED avars
    /\ UNCHANGED rvars
    /\ UNCHANGED cvars

\* markdown_file.rs:30: fs::rename onto the path of the temporary file. Not
\* taken while the task of f is inside its fs::write, whose open file the
\* rename would detach from the path.
RenameTmp(f) ==
    /\ ~exited
    /\ tpc[f] = "written"
    /\ pc[f] # "writing"
    /\ fs' = [fs EXCEPT ![tmp_path(Path(f))] = fs[tmp_path(tmp_path(Path(f)))],
                        ![tmp_path(tmp_path(Path(f)))] = Absent]
    /\ tpc' = [tpc EXCEPT ![f] = "done"]
    /\ status' = IF writer = "apply_changes" THEN StatusMax(status, 0) ELSE status
    /\ UNCHANGED tnewc
    /\ UNCHANGED <<cmd, writer, orig, pc, content, newc, failed, faults,
                   panicked, exited, exit_code>>
    /\ UNCHANGED avars
    /\ UNCHANGED rvars
    /\ UNCHANGED cvars

\* the process ends once no task is running, those on temporary files
\* included
ExitAll ==
    /\ \A f \in Files : tpc[f] \notin InFlight
    /\ Exit

WalkNext ==
    \/ \E f \in Files : Walk(f)
    \/ \E f \in Files : Read(f)
    \/ \E f \in Files : WriteBegin(f)
    \/ \E f \in Files : WriteEnd(f)
    \/ \E f \in Files : Rename(f)
    \/ \E f \in Files : WalkTmp(f)
    \/ \E f \in Files : ReadTmp(f)
    \/ \E f \in Files : WriteTmp(f)
    \/ \E f \in Files : RenameTmp(f)
    \/ ExitAll

SpecWalk == Init /\ [][WalkNext]_vars

-----------------------------------------------------------------------------
(* The archive specification: a document is written, then archived twice    *)

ArchiveInit == ArchiveIdle /\ PipelineIdle /\ RenderIdle /\ StrayIdle /\ ChangesIdle

\* the document gets one more root child: a paragraph, a heading or a list
\* of one item
WriteNode ==
    /\ passes = 0
    /\ DocSize(doc) < MaxSize
    /\ \E t \in OtherTop \cup {List(<<it>>) : it \in Items} :
          doc' = Append(doc, t)
    /\ UNCHANGED <<result, input, passes>>
    /\ UNCHANGED pvars
    /\ UNCHANGED svars
    /\ UNCHANGED rvars
    /\ UNCHANGED cvars

\* the last list of the document gets one more item
WriteItem ==
    /\ passes = 0
    /\ DocSize(doc) < MaxSize
    /\ doc # <<>>
    /\ IsList(doc[Len(doc)])
    /\ \E it \in Items :
          doc' = [doc EXCEPT ![Len(doc)].children = Append(@, it)]
    /\ UNCHANGED <<result, input, passes>>
    /\ UNCHANGED pvars
    /\ UNCHANGED svars
    /\ UNCHANGED rvars
    /\ UNCHANGED cvars

\* the first run of the archive command on the document
FirstPass ==
    /\ passes = 0
    /\ input' = doc
    /\ result' = archive_markdown(doc)
    /\ passes' = 1
    /\ UNCHANGED doc
    /\ UNCHANGED pvars
    /\ UNCHANGED svars
    /\ UNCHANGED rvars
    /\ UNCHANGED cvars

\* the archive command run again on what the previous run wrote
SecondPass ==
    /\ passes = 1
    /\ result.tag = "Some"
    /\ input' = result.children
    /\ result' = archive_markdown(result.children)
    /\ passes' = passes + 1
    /\ UNCHANGED doc
    /\ UNCHANGED pvars
    /\ UNCHANGED svars
    /\ UNCHANGED rvars
    /\ UNCHANGED cvars

ArchiveNext == WriteNode \/ WriteItem \/ FirstPass \/ SecondPass

SpecArchive == ArchiveInit /\ [][ArchiveNext]_vars

-----------------------------------------------------------------------------
(* MdastDocument::parse on texts whose lines are a bullet item "- a" or     *)
(* "* a", paragraph text "a", or blank: the block structure CommonMark      *)
(* gives them                                                               *)

\* the lines a text is written from
LineShapes == { <<"-", " ", "a">>, <<"*", " ", "a">>, <<"a">>, <<>> }

\* a line that starts a bullet list item: a bullet, a space, the content
IsBullet(line) ==
    Len(line) >= 3 /\ line[1] \in {"-", "*"} /\ line[2] = " "

\* the parser before the first line: no block is open
ParseStart == [blocks |-> <<>>, open |-> "none", marker |-> "", blank |-> FALSE]

\* one line is added to the blocks parsed so far. open is the kind of the
\* last block if it can still grow, marker the bullet of the open list,
\* blank whether a blank line follows the last item of the open list
ParseLine(st, line) ==
    LET last == Len(st.blocks)
    IN  CASE line = <<>> ->
                IF st.open = "list" THEN [st EXCEPT !.blank = TRUE]
                ELSE [st EXCEPT !.open = "none"]
          [] IsBullet(line) ->
                LET item == ListItem("none",
                                <<Paragraph(<<Text(SubSeq(line, 3, Len(line)))>>)>>)
                IN  IF st.open = "list" /\ st.marker = line[1]
                    \* the same bullet: the next item of the open list
                    THEN [st EXCEPT !.blocks[last].children = Append(@, item),
                                    !.blank = FALSE]
                    \* another bullet, or no list open: a new list, which
                    \* may interrupt a paragraph
                    ELSE [blocks |-> Append(st.blocks, List(<<item>>)),
                          open |-> "list", marker |-> line[1], blank |-> FALSE]
          [] OTHER ->
                IF st.open = "para"
                \* the paragraph continues
                THEN [st EXCEPT !.blocks[last].children[1].value =
                                    @ \o <<NL>> \o line]
                ELSE IF st.open = "list" /\ ~st.blank
                \* a lazy continuation line of the last item's paragraph
                THEN LET n == Len(st.blocks[last].children)
                     IN  [st EXCEPT
                            !.blocks[last].children[n].children[1].children[1].value =
                                @ \o <<NL>> \o line]
                ELSE [blocks |-> Append(st.blocks, Paragraph(<<Text(line)>>)),
                      open |-> "para", marker |-> "", blank |-> FALSE]

RECURSIVE ParseLines(_, _)
ParseLines(st, lines) ==
    IF lines = <<>> THEN st
    ELSE ParseLines(ParseLine(st, Head(lines)), Tail(lines))

\* markdown_file.rs:41-60: the children of the root markdown::to_mdast returns
parse(md_string) == ParseLines(ParseStart, Lines(md_string)).blocks

-----------------------------------------------------------------------------
(* The trees the serializer is applied to                                   *)

T == Text(<<"t">>)

\* a reference to a definition: [t][r]
Reference == LinkReference(<<"r">>, <<T>>)

\* root children of the node kinds mdast_string has an arm for
SupportedNodes ==
    { Heading(1, <<T>>),
      Paragraph(<<T, Emphasis(<<T>>), Strong(<<T>>), Delete(<<T>>)>>),
      Paragraph(<<T, Break, InlineCode(<<"c", Backtick>>), InlineMath(<<"m">>)>>),
      Paragraph(<<Link(<<"u">>, <<Text(<<"u">>)>>), Link(<<"u">>, <<T>>),
                  Image(<<"i">>, <<"u">>), ImageReference(<<"i">>, <<"r">>),
                  FootnoteReference(<<"f">>)>>),
      List(<<ListItem("true", <<Paragraph(<<T>>),
                                List(<<ListItem("none", <<Paragraph(<<T>>)>>)>>)>>),
             ListItem("false", <<Paragraph(<<T>>)>>)>>),
      OrderedList(9, <<ListItem("none", <<Paragraph(<<T>>)>>),
                       ListItem("none", <<Paragraph(<<T>>)>>)>>),
      Code(<<"r">>, <<"c">>),
      BlockQuote(<<Paragraph(<<Text(<<"t", NL, "t">>)>>)>>),
      ThematicBreak,
      Html(<<"<", "p", ">">>),
      Definition(<<"r">>, <<"u">>),
      FootnoteDefinition(<<"f">>, <<Paragraph(<<T>>), Paragraph(<<T>>)>>),
      Table(<<"left", "center">>,
            <<TableRow(<<TableCell(<<T>>), TableCell(<<Text(<<Wide>>)>>)>>),
              TableRow(<<TableCell(<<T>>)>>)>>),
      Math(<<"m">>),
      Yaml(<<"y">>) }

\* root children holding a node of a kind mdast_string has no arm for
UnsupportedNodes ==
    { Toml(<<"y">>),
      Paragraph(<<T, Reference>>),
      Heading(1, <<Reference>>),
      List(<<ListItem("true", <<Paragraph(<<Emphasis(<<Reference>>)>>)>>)>>),
      BlockQuote(<<Paragraph(<<Reference>>)>>),
      FootnoteDefinition(<<"f">>, <<Paragraph(<<T>>), Paragraph(<<Reference>>)>>),
      Table(<<"none">>,
            <<TableRow(<<TableCell(<<T>>)>>),
              TableRow(<<TableCell(<<Reference>>)>>)>>) }

\* the strings of 1..n characters drawn from the set chars
RECURSIVE Strings(_, _)
Strings(chars, n) ==
    IF n = 0 THEN {}
    ELSE {<<c>> : c \in chars}
         \cup {Append(v, c) : v \in Strings(chars, n - 1), c \in chars}

\* the sequences of 1..n elements drawn from the set S
RECURSIVE SeqsUpTo(_, _)
SeqsUpTo(S, n) ==
    IF n = 0 THEN {}
    ELSE {<<x>> : x \in S}
         \cup {Append(q, x) : q \in SeqsUpTo(S, n - 1), x \in S}

\* paragraphs made of one inline code whose value holds backticks
InlineCodeCases ==
    {Paragraph(<<InlineCode(v)>>) : v \in Strings({"c", Backtick}, MaxCode)}

PlainItem == ListItem("none", <<Paragraph(<<T>>)>>)

\* the children of the ordered lists: an item, an item over a bullet list, an
\* item over an ordered list, and a child that is not a ListItem
ListChildren ==
    { PlainItem,
      ListItem("none", <<Paragraph(<<T>>), List(<<PlainItem>>)>>),
      ListItem("true", <<Paragraph(<<T>>), OrderedList(1, <<PlainItem, PlainItem>>)>>),
      Paragraph(<<T>>) }

\* the start values: the least, one before a second digit, and the largest
\* the parser accepts (nine digits)
Starts == {1, 9, 999999999}

OrderedCases ==
    {OrderedList(s, ch) : s \in Starts, ch \in SeqsUpTo(ListChildren, MaxItems)}

Aligns == <<"left", "center", "right", "none">>

\* the alignments of n columns, going through Aligns from its a-th element
AlignSeq(a, n) == [c \in 1..n |-> Aligns[((a + c - 2) % Len(Aligns)) + 1]]

\* what a cell holds: nothing, one character, or a wide character and two
\* more (display width 4)
CellTexts == { <<>>, <<Text(<<"t">>)>>, <<Text(<<Wide, "t", "t">>)>> }

\* the rows of a table of n columns: one cell too few, as many cells as
\* columns or one cell too many, all of one content
TableRows(n) ==
    {TableRow([c \in 1..k |-> TableCell(x)]) :
        k \in (n - 1)..(n + 1), x \in CellTexts}

TableCases ==
    UNION {{Table(AlignSeq(an[1], an[2]), rows) :
               rows \in SeqsUpTo(TableRows(an[2]), MaxRows)}
              : an \in (1..Len(Aligns)) \X (1..MaxCols)}

DetailNodes == InlineCodeCases \cup OrderedCases \cup TableCases

-----------------------------------------------------------------------------
(* The serializer specification: a tree is parsed from a text or built from *)
(* nodes, rendered, and what was rendered from a text is parsed and         *)
(* rendered again                                                           *)

RenderInit == ArchiveIdle /\ PipelineIdle /\ RenderIdle /\ StrayIdle /\ ChangesIdle

\* the text gets one more line
WriteLine ==
    /\ rstep = "input"
    /\ tree = <<>>
    /\ Len(Lines(mdtext)) < MaxLines
    /\ \E line \in LineShapes : mdtext' = mdtext \o line \o <<NL>>
    /\ UNCHANGED <<tree, rendered, again, rstep>>
    /\ UNCHANGED avars
    /\ UNCHANGED pvars
    /\ UNCHANGED svars
    /\ UNCHANGED cvars

\* MdastDocument::parse of the text
ParseText ==
    /\ rstep = "input"
    /\ mdtext # <<>>
    /\ tree' = parse(mdtext)
    /\ rstep' = "parsed"
    /\ UNCHANGED <<mdtext, rendered, again>>
    /\ UNCHANGED avars
    /\ UNCHANGED pvars
    /\ UNCHANGED svars
    /\ UNCHANGED cvars

\* the tree gets one more root child
BuildNode ==
    /\ rstep = "input"
    /\ mdtext = <<>>
    /\ Len(tree) < MaxNodes
    /\ IF tree = <<>> THEN TRUE ELSE tree[1] \notin DetailNodes
    /\ \E node \in SupportedNodes \cup UnsupportedNodes : tree' = Append(tree, node)
    /\ UNCHANGED <<mdtext, rendered, again, rstep>>
    /\ UNCHANGED avars
    /\ UNCHANGED pvars
    /\ UNCHANGED svars
    /\ UNCHANGED cvars

\* the tree is one root child: an inline code, an ordered list or a table
BuildCase ==
    /\ rstep = "input"
    /\ mdtext = <<>>
    /\ tree = <<>>
    /\ \E node \in DetailNodes : tree' = <<node>>
    /\ UNCHANGED <<mdtext, rendered, again, rstep>>
    /\ UNCHANGED avars
    /\ UNCHANGED pvars
    /\ UNCHANGED svars
    /\ UNCHANGED cvars

\* MdastDocument::render of the tree
Render ==
    /\ \/ rstep = "parsed"
       \/ rstep = "input" /\ tree # <<>>
    /\ rendered' = render(tree)
    /\ rstep' = "rendered"
    /\ UNCHANGED <<mdtext, tree, again>>
    /\ UNCHANGED avars
    /\ UNCHANGED pvars
    /\ UNCHANGED svars
    /\ UNCHANGED cvars

\* the rendered text is parsed and rendered again
Reparse ==
    /\ rstep = "rendered"
    /\ mdtext # <<>>
    /\ ~rendered.panic
    /\ again' = render(parse(rendered.s))
    /\ rstep' = "again"
    /\ UNCHANGED <<mdtext, tree, rendered>>
    /\ UNCHANGED avars
    /\ UNCHANGED pvars
    /\ UNCHANGED svars
    /\ UNCHANGED cvars

RenderNext ==
    WriteLine \/ ParseText \/ BuildNode \/ BuildCase \/ Render \/ Reparse

SpecRender == RenderInit /\ [][RenderNext]_vars

-----------------------------------------------------------------------------
(* The normalizer specification: a document is written, then formatted      *)
(* twice                                                                    *)

\* the characters the literals of a document are written from
TextChars == {"a", "-"}

\* the root children with the literal t: a paragraph of a text and an inline
\* code, a code block, a math block, and a list whose item holds an
\* emphasized text next to an html comment
FormatShapes(t) ==
    { Paragraph(<<Text(t), InlineCode(t)>>),
      Code(<<>>, t),
      Math(t),
      List(<<ListItem("none",
                <<Paragraph(<<Emphasis(<<Text(t)>>),
                              Html(<<"<", "!", "-", "-", "-", "-", ">">>)>>)>>)>>) }

\* the literal a root child was written with
RECURSIVE Literal(_)
Literal(node) ==
    IF "value" \in DOMAIN node THEN node.value ELSE Literal(node.children[1])

\* the size of a document: the characters of the literals of its root children
RECURSIVE DocChars(_)
DocChars(children) ==
    IF children = <<>> THEN 0
    ELSE Len(Literal(Head(children))) + DocChars(Tail(children))

\* the document gets one more root child
FormatWriteNode ==
    /\ passes = 0
    /\ \E k \in 1..(MaxText - DocChars(doc)) :
          \E t \in [1..k -> TextChars] :
             \E node \in FormatShapes(t) : doc' = Append(doc, node)
    /\ UNCHANGED <<result, input, passes>>
    /\ UNCHANGED pvars
    /\ UNCHANGED svars
    /\ UNCHANGED rvars
    /\ UNCHANGED cvars

\* the first run of the format command on the document
FormatFirst ==
    /\ passes = 0
    /\ input' = doc
    /\ result' = format_document(doc)
    /\ passes' = 1
    /\ UNCHANGED doc
    /\ UNCHANGED pvars
    /\ UNCHANGED svars
    /\ UNCHANGED rvars
    /\ UNCHANGED cvars

\* the format command run again on what the previous run returned
FormatSecond ==
    /\ passes = 1
    /\ result.tag = "Some"
    /\ input' = result.children
    /\ result' = format_document(result.children)
    /\ passes' = passes + 1
    /\ UNCHANGED doc
    /\ UNCHANGED pvars
    /\ UNCHANGED svars
    /\ UNCHANGED rvars
    /\ UNCHANGED cvars

FormatNext == FormatWriteNode \/ FormatFirst \/ FormatSecond

FormatInit == ArchiveIdle /\ PipelineIdle /\ RenderIdle /\ StrayIdle /\ ChangesIdle

SpecFormat == FormatInit /\ [][FormatNext]_vars

-----------------------------------------------------------------------------
(* markdown.rs: Changes, the cut-and-paste edits of a text. Offsets are     *)
(* 0-based, a section is the offsets start..end with end excluded.          *)

Section(start, end) == [start |-> start, end |-> end]

Position(at) == [at |-> at]

CutPaste(section, position) ==
    [kind |-> "CutPaste", section |-> section, position |-> position]

InsertChange(str, position) ==
    [kind |-> "Insert", content |-> str, position |-> position]

Add(str) == [op |-> "Add", content |-> str]

Remove(len) == [op |-> "Remove", len |-> len]

\* &content[from..to]
Slice(str, from, to) == SubSeq(str, from + 1, to)

\* markdown.rs:98-103: insert_operation on the map, a key without an entry
\* mapping to the empty vector
insert_operation(operations, key, operation) ==
    [k \in DOMAIN operations \cup {key} |->
        IF k = key
        THEN (IF key \in DOMAIN operations THEN operations[key] ELSE <<>>)
                 \o <<operation>>
        ELSE operations[k]]

\* markdown.rs:105-119: the operations of the changes from the i-th on
RECURSIVE RecordOperations(_, _, _, _)
RecordOperations(str, chs, i, operations) ==
    IF i > Len(chs) THEN operations
    ELSE LET change == chs[i]
         IN  IF change.kind = "CutPaste"
             THEN RecordOperations(str, chs, i + 1,
                      insert_operation(
                          insert_operation(
                              operations, change.section.start,
                              Remove(change.section.end - change.section.start)),
                          change.position.at,
                          Add(Slice(str, change.section.start,
                                    change.section.end))))
             ELSE RecordOperations(str, chs, i + 1,
                      insert_operation(operations, change.position.at,
                                       Add(change.content)))

\* markdown.rs:142-149: what the operations of one position push, and the
\* deletion_offset they leave
RECURSIVE ApplyOperations(_, _, _)
ApplyOperations(ops, pushed, deletion_offset) ==
    IF ops = <<>> THEN [pushed |-> pushed, deletion_offset |-> deletion_offset]
    ELSE IF Head(ops).op = "Add"
    THEN ApplyOperations(Tail(ops), pushed \o Head(ops).content, deletion_offset)
    ELSE ApplyOperations(Tail(ops), pushed, Head(ops).len)

\* markdown.rs:152-155: the third assertion
OneOperation(ops) == Len(ops) = 1

\* markdown.rs:125-159: the loop over the map in key order, keys being the
\* keys still to visit
RECURSIVE OperationsLoop(_, _, _, _, _)
OperationsLoop(str, operations, keys, last, new_content) ==
    IF keys = {} THEN Ok(new_content \o Slice(str, last, Len(str)))
    ELSE LET at == CHOOSE k \in keys : \A j \in keys : k <= j
             r == ApplyOperations(operations[at], <<>>, 0)
         IN  IF at > Len(str) THEN Panic
             ELSE IF at < last THEN Panic
             ELSE IF r.deletion_offset > 0 /\ ~OneOperation(operations[at])
             THEN Panic
             ELSE OperationsLoop(str, operations, keys \ {at},
                                 at + r.deletion_offset,
                                 new_content \o Slice(str, last, at) \o r.pushed)

\* markdown.rs:59-61 and 163-165: MARKDOWN_LINTS, the pattern \n$ replaced by
\* nothing
Lint(str) ==
    IF str # <<>> /\ str[Len(str)] = NL THEN SubSeq(str, 1, Len(str) - 1)
    ELSE str

\* markdown.rs:91-168. Slicing the content for a section that is not within
\* it panics as well.
compute_new_content(str, chs) ==
    IF chs = <<>> THEN Ok(str)
    ELSE IF \E i \in 1..Len(chs) :
               /\ chs[i].kind = "CutPaste"
               /\ \/ chs[i].section.start > chs[i].section.end
                  \/ chs[i].section.end > Len(str)
    THEN Panic
    ELSE LET operations == RecordOperations(str, chs, 1, <<>>)
             r == OperationsLoop(str, operations, DOMAIN operations, 0, <<>>)
         IN  IF r.panic THEN Panic ELSE Ok(Lint(r.s))

-----------------------------------------------------------------------------
(* The changes specification: a content is written, changes are recorded    *)
(* on it, and the new content is computed                                   *)

ContentChars == {"a", NL}

InsertedStrings == { <<"x">>, <<"y">> }

ChangesInit ==
    ArchiveIdle /\ PipelineIdle /\ RenderIdle /\ StrayIdle /\ ChangesIdle

\* the content gets one more character
WriteChar ==
    /\ cstep = "content"
    /\ Len(ccontent) < MaxContent
    /\ \E c \in ContentChars : ccontent' = Append(ccontent, c)
    /\ UNCHANGED <<changes, cresult, cstep>>
    /\ UNCHANGED avars
    /\ UNCHANGED pvars
    /\ UNCHANGED rvars
    /\ UNCHANGED svars

\* markdown.rs:83-85: cut_and_paste
cut_and_paste ==
    /\ cstep \in {"content", "recording"}
    /\ Len(changes) < MaxChanges
    /\ \E start \in 0..Len(ccontent), end \in 0..Len(ccontent),
          at \in 0..(Len(ccontent) + 1) :
          /\ start <= end
          /\ changes' = Append(changes,
                               CutPaste(Section(start, end), Position(at)))
    /\ cstep' = "recording"
    /\ UNCHANGED <<ccontent, cresult>>
    /\ UNCHANGED avars
    /\ UNCHANGED pvars
    /\ UNCHANGED rvars
    /\ UNCHANGED svars

\* markdown.rs:87-89: insert
insert ==
    /\ cstep \in {"content", "recording"}
    /\ Len(changes) < MaxChanges
    /\ \E str \in InsertedStrings, at \in 0..(Len(ccontent) + 1) :
          changes' = Append(changes, InsertChange(str, Position(at)))
    /\ cstep' = "recording"
    /\ UNCHANGED <<ccontent, cresult>>
    /\ UNCHANGED avars
    /\ UNCHANGED pvars
    /\ UNCHANGED rvars
    /\ UNCHANGED svars

\* markdown.rs:171-177 and 188-190: the new content is computed
Compute ==
    /\ cstep \in {"content", "recording"}
    /\ cresult' = compute_new_content(ccontent, changes)
    /\ cstep' = "computed"
    /\ UNCHANGED <<ccontent, changes>>
    /\ UNCHANGED avars
    /\ UNCHANGED pvars
    /\ UNCHANGED rvars
    /\ UNCHANGED svars

ChangesNext == WriteChar \/ cut_and_paste \/ insert \/ Compute

SpecChanges == ChangesInit /\ [][ChangesNext]_vars
-----------------------------------------------------------------------------
(* Reading a document: the notions the archival properties are stated in    *)

\* 1-based index of the Archived heading among the root children, 0 if none
HeadingIndex(children) ==
    IF HasArchived(children) THEN FoundAt(children) + 1 ELSE 0

\* the positions located before the Archived heading (every position when the
\* document has no Archived heading)
SourceRange(children) ==
    IF HasArchived(children) THEN 1..(HeadingIndex(children) - 1)
    ELSE 1..Len(children)

\* the positions located after the Archived heading
ArchiveRange(children) ==
    IF HasArchived(children) THEN (HeadingIndex(children) + 1)..Len(children)
    ELSE {}

\* the items of the lists at positions lo..hi that satisfy want, in order
RECURSIVE ItemsIn(_, _, _, _)
ItemsIn(children, lo, hi, want) ==
    IF lo > hi THEN <<>>
    ELSE (IF IsList(children[lo])
          THEN IF want = "qualifying" THEN ArchivedItems(children[lo].children)
               ELSE children[lo].children
          ELSE <<>>)
         \o ItemsIn(children, lo + 1, hi, want)

\* the qualifying direct items of the top-level lists before the heading
QualifyingItems(children) ==
    IF HasArchived(children)
    THEN ItemsIn(children, 1, HeadingIndex(children) - 1, "qualifying")
    ELSE ItemsIn(children, 1, Len(children), "qualifying")

\* the direct items of the top-level lists after the heading
ItemsAfter(children) ==
    IF HasArchived(children)
    THEN ItemsIn(children, HeadingIndex(children) + 1, Len(children), "all")
    ELSE <<>>

Count(s, x) == Cardinality({i \in 1..Len(s) : s[i] = x})

\* the direct items of every top-level list
TopItems(children) ==
    UNION {{children[i].children[k] : k \in 1..Len(children[i].children)}
              : i \in {j \in 1..Len(children) : IsList(children[j])}}

\* some list item in the subtree of node, node included, is unchecked
RECURSIVE HasUncheckedItem(_)
HasUncheckedItem(node) ==
    \/ node.type = "listItem" /\ node.checked = "false"
    \/ /\ "children" \in DOMAIN node
       /\ \E i \in 1..Len(node.children) : HasUncheckedItem(node.children[i])

\* the same, looking only along List and ListItem nesting
RECURSIVE HasUncheckedAlongLists(_)
HasUncheckedAlongLists(node) ==
    /\ node.type \in {"listItem", "list"}
    /\ \/ node.type = "listItem" /\ node.checked = "false"
       \/ \E i \in 1..Len(node.children) : HasUncheckedAlongLists(node.children[i])

\* s is t with some elements left out
RECURSIVE IsSubseq(_, _)
IsSubseq(s, t) ==
    IF s = <<>> THEN TRUE
    ELSE IF t = <<>> THEN FALSE
    ELSE IF Head(s) = Head(t) THEN IsSubseq(Tail(s), Tail(t))
    ELSE IsSubseq(s, Tail(t))

\* the children at the positions of the set idx, in order
RECURSIVE Pick(_, _, _)
Pick(children, i, idx) ==
    IF i > Len(children) THEN <<>>
    ELSE (IF i \in idx THEN <<children[i]>> ELSE <<>>) \o Pick(children, i + 1, idx)

\* the items of a list's children that do not qualify, in order
RECURSIVE RemainingItems(_)
RemainingItems(items) ==
    IF items = <<>> THEN <<>>
    ELSE (IF Qualifies(Head(items)) THEN <<>> ELSE <<Head(items)>>)
         \o RemainingItems(Tail(items))

\* per list at the positions lo..hi that has items which do not qualify:
\* those items
RECURSIVE RemainingIn(_, _, _)
RemainingIn(children, lo, hi) ==
    IF lo > hi THEN <<>>
    ELSE (IF IsList(children[lo]) /\ RemainingItems(children[lo].children) # <<>>
          THEN <<RemainingItems(children[lo].children)>>
          ELSE <<>>)
         \o RemainingIn(children, lo + 1, hi)

\* the same for the top-level lists before the heading
KeptItems(children) ==
    IF HasArchived(children)
    THEN RemainingIn(children, 1, HeadingIndex(children) - 1)
    ELSE RemainingIn(children, 1, Len(children))

Ran == passes >= 1 /\ result.tag = "Some"

\* the pass that just ran put one more copy of item after the heading
ArchivedNow(item) ==
    Count(ItemsAfter(result.children), item) > Count(ItemsAfter(input), item)

-----------------------------------------------------------------------------
(* Archival properties                                                      *)

\* C1: archive_markdown returns None exactly when no direct item of a
\* top-level list before the Archived heading qualifies.
C1_NoneUnlessQualifying ==
    passes >= 1 => ((result = None) <=> (QualifyingItems(input) = <<>>))

\* C2: after a pass no qualifying item is left in a top-level list before
\* the Archived heading, and no emptied source list is left among the root's
\* children.
C2_QualifyingRemoved ==
    Ran => \A i \in SourceRange(result.children) :
              IsList(result.children[i]) =>
                  /\ result.children[i].children # <<>>
                  /\ ArchivedItems(result.children[i].children) = <<>>

\* C3: every qualifying top-level item is, subtree unchanged, an item of the
\* list directly following the Archived heading, and nothing but the
\* qualifying top-level items is relocated.
C3_ArchivedUnderHeading ==
    Ran => LET out == result.children
               h == HeadingIndex(out)
               q == QualifyingItems(input)
           IN  /\ \A k \in 1..Len(q) :
                      /\ h > 0
                      /\ h < Len(out)
                      /\ IsList(out[h + 1])
                      /\ \E m \in 1..Len(out[h + 1].children) :
                             out[h + 1].children[m] = q[k]
               /\ Len(ItemsAfter(out)) = Len(ItemsAfter(input)) + Len(q)

\* C4: archival is idempotent: a pass over the output of a pass returns None.
C4_SecondPassNone ==
    passes >= 2 => result = None

C6_UnrelatedUnchanged ==
    Ran => LET out == result.children
               frame == {i \in 1..Len(input) :
                            ~(IsList(input[i]) /\ i \in SourceRange(input))}
           IN  /\ IsSubseq(Pick(input, 1, frame), out)
               /\ KeptItems(out) = KeptItems(input)
               /\ IsSubseq(ItemsAfter(input), ItemsAfter(out))
               /\ Len(ItemsAfter(out))
                      = Len(ItemsAfter(input)) + Len(QualifyingItems(input))

\* C6 witness: a pass over a document with a qualifying item before the
\* heading and a list holding a qualifying item after it.
C6_Witness ==
    /\ Ran
    /\ QualifyingItems(input) # <<>>
    /\ \E i \in ArchiveRange(input) :
          IsList(input[i]) /\ ArchivedItems(input[i].children) # <<>>
    /\ \E i \in 1..Len(input) : ~IsList(input[i]) /\ ~IsArchivedHeading(input[i])

-----------------------------------------------------------------------------
(* Pipeline properties                                                      *)

\* what the command makes of the content vault file f had when it started
Wanted(f) == FileOf(Transform(orig[Path(f)].data).children)

\* the task of f has created its temporary file
WriteStarted(f) == pc[f] \in {"writing", "written", "done"}

\* C7: the format command writes no file whose normalized, rendered output
\* equals its current content.
C7_NoWriteWhenUnchanged ==
    cmd = "format" =>
        \A f \in Files : WriteStarted(f) => newc[f] # content[f]

\* C8: an I/O failure on one file does not abort the others: when the command
\* ends, every vault file on which no I/O failed has been transformed and
\* written.
C8_OthersStillWritten ==
    exited =>
        \A f \in Files :
            (orig[Path(f)].exists /\ failed[f] = "none") =>
                pc[f] = "done" /\ fs[Path(f)] = Wanted(f)

\* C9: the exit status is non-zero exactly when an I/O operation failed on at
\* least one file, and 0 when every file succeeded or none was processed,
\* in whatever order the tasks complete.
C9_ExitStatusWorst ==
    exited => ((exit_code # 0) <=> (\E f \in Files : failed[f] # "none"))

\* C9 witness: under apply_changes the command ended non-zero after a rename
\* failed on one file and another file was written.
C9_Witness ==
    /\ exited
    /\ writer = "apply_changes"
    /\ exit_code # 0
    /\ \E f \in Files : failed[f] = "rename"
    /\ \E f \in Files : pc[f] = "done"

-----------------------------------------------------------------------------
(* Serializer properties                                                    *)

\* the node variants of the data model; the frontmatter is a yaml node and
\* the rows and cells of a table are tableRow and tableCell nodes
DataModelKinds ==
    { "root", "heading", "paragraph", "text", "list", "listItem", "code",
      "inlineCode", "emphasis", "strong", "delete", "link", "image",
      "imageReference", "definition", "blockquote", "thematicBreak", "html",
      "break", "footnoteReference", "footnoteDefinition", "table", "tableRow",
      "tableCell", "math", "inlineMath", "yaml" }

\* node, or a node of its subtree, is of a kind outside the data model
RECURSIVE HasOtherKind(_)
HasOtherKind(node) ==
    \/ node.type \notin DataModelKinds
    \/ /\ "children" \in DOMAIN node
       /\ \E i \in 1..Len(node.children) : HasOtherKind(node.children[i])

WasRendered == rstep \in {"rendered", "again"}

C12_RenderIdempotent ==
    rstep = "again" => again = rendered

-----------------------------------------------------------------------------
(* Normalizer properties                                                    *)

\* b is a with at most the values of its Text nodes changed
RECURSIVE SameButText(_, _)
SameButText(a, b) ==
    IF a.type = "text" THEN b.type = "text" /\ DOMAIN b = DOMAIN a
    ELSE IF "children" \in DOMAIN a
    THEN /\ "children" \in DOMAIN b
         /\ [b EXCEPT !.children = a.children] = a
         /\ Len(b.children) = Len(a.children)
         /\ \A i \in 1..Len(a.children) :
                SameButText(a.children[i], b.children[i])
    ELSE b = a

\* the values of the Text nodes in the subtree of node
RECURSIVE TextValues(_)
TextValues(node) ==
    IF node.type = "text" THEN {node.value}
    ELSE IF "children" \in DOMAIN node
    THEN UNION {TextValues(node.children[i]) : i \in 1..Len(node.children)}
    ELSE {}

\* the literal values of the nodes other than Text in the subtree of node
RECURSIVE OtherValues(_)
OtherValues(node) ==
    IF node.type = "text" THEN {}
    ELSE (IF "value" \in DOMAIN node THEN {node.value} ELSE {})
         \cup (IF "children" \in DOMAIN node
               THEN UNION {OtherValues(node.children[i]) :
                              i \in 1..Len(node.children)}
               ELSE {})

\* v holds two hyphens in a row
HasDoubleHyphen(v) ==
    \E i \in 1..(Len(v) - 1) : v[i] = "-" /\ v[i + 1] = "-"

Formatted == passes >= 1 /\ result.tag = "Some"

\* C13: the normalizer preserves structure: the output has the kinds, the
\* number and the order of children of the input at every position, and
\* every node that is not a Text, with its literal value, is unchanged.
C13_StructurePreserved ==
    Formatted =>
        /\ Len(result.children) = Len(input)
        /\ \A i \in 1..Len(input) : SameButText(input[i], result.children[i])

\* C13 witness: a pass changed a Text value and kept a code block whose
\* value holds two hyphens in a row.
C13_Witness ==
    /\ Formatted
    /\ \E i \in 1..Len(input) :
          /\ input[i].type = "code"
          /\ HasDoubleHyphen(input[i].value)
          /\ result.children[i] = input[i]
    /\ \E i \in 1..Len(input) :
          /\ TextValues(input[i]) # {}
          /\ result.children[i] # input[i]

\* C14: the normalizer is idempotent: after a pass no Text value holds two
\* hyphens in a row, whatever the length of the runs of hyphens before it,
\* and a second pass returns its input.
C14_FormatIdempotent ==
    /\ Formatted =>
          \A i \in 1..Len(result.children) :
              \A v \in TextValues(result.children[i]) : ~HasDoubleHyphen(v)
    /\ passes >= 2 => result.children = input

\* C14 witness: a second pass ran on a document whose first pass rewrote a
\* Text that starts with a run of three hyphens.
C14_Witness ==
    /\ passes >= 2
    /\ input # doc
    /\ \E i \in 1..Len(doc) : \E v \in TextValues(doc[i]) :
          Len(v) >= 4 /\ (\A k \in 1..3 : v[k] = "-") /\ v[4] = "a"

-----------------------------------------------------------------------------
(* Archival properties: classification, order and placement                 *)

\* the direct items of the top-level lists before the Archived heading
SourceItems(children) ==
    UNION {{children[i].children[k] : k \in 1..Len(children[i].children)}
              : i \in {j \in SourceRange(children) : IsList(children[j])}}

\* some list item in the subtree of node, node included, has a checkbox
RECURSIVE HasCheckbox(_)
HasCheckbox(node) ==
    \/ node.type = "listItem" /\ node.checked # "none"
    \/ /\ "children" \in DOMAIN node
       /\ \E i \in 1..Len(node.children) : HasCheckbox(node.children[i])

\* some list item in the subtree of node, node included, is checked
RECURSIVE HasCheckedItem(_)
HasCheckedItem(node) ==
    \/ node.type = "listItem" /\ node.checked = "true"
    \/ /\ "children" \in DOMAIN node
       /\ \E i \in 1..Len(node.children) : HasCheckedItem(node.children[i])

\* C15: a top-level item without a checkbox whose subtree holds no checkbox
\* at all is not archived by a pass.
C15_PlainItemKept ==
    Ran => \A item \in SourceItems(input) :
              ~HasCheckbox(item) => ~ArchivedNow(item)

\* C16: a top-level item before the heading whose subtree holds a checked
\* list item and no unchecked one is archived, whether the item itself has
\* no checkbox or is checked above sub-items without a checkbox.
C16_InheritedArchived ==
    Ran => \A item \in SourceItems(input) :
              (HasCheckedItem(item) /\ ~HasUncheckedItem(item))
                  => /\ ArchivedNow(item)
                     /\ \E k \in 1..Len(ItemsAfter(result.children)) :
                            ItemsAfter(result.children)[k] = item

\* C16 witness: a pass archived an item without a checkbox above a checked
\* sub-item, and a checked item above a sub-item without a checkbox.
C16_Witness ==
    /\ Ran
    /\ \E item \in SourceItems(input) :
          /\ item.checked = "none"
          /\ HasCheckedItem(item)
          /\ ArchivedNow(item)
    /\ \E item \in SourceItems(input) :
          /\ item.checked = "true"
          /\ \E i \in 1..Len(item.children) :
                /\ IsList(item.children[i])
                /\ \E k \in 1..Len(item.children[i].children) :
                      item.children[i].children[k].checked = "none"
          /\ ArchivedNow(item)

\* C17: the items after the heading hold the newly archived items in
\* document order: source lists top to bottom, each list's items in their
\* original order.
C17_DocumentOrder ==
    Ran => IsSubseq(QualifyingItems(input), ItemsAfter(result.children))

\* the root children that follow the Archived heading, or the point where it
\* is synthesized
AfterHeading(children) ==
    IF HasArchived(children)
    THEN SubSeq(children, HeadingIndex(children) + 1, Len(children))
    ELSE SubSeq(children, LastList(children) + 1, Len(children))

\* C18: the newly qualifying items are put at the front of the List that
\* directly follows the heading, or, when no List follows it, into one new
\* List placed there; the rest after the heading stays as it was.
C18_PrependedToList ==
    (Ran /\ QualifyingItems(input) # <<>>) =>
        LET out == result.children
            q == QualifyingItems(input)
            old == AfterHeading(input)
        IN  SubSeq(out, HeadingIndex(out) + 1, Len(out))
                = IF old # <<>> /\ IsList(old[1])
                  THEN <<[old[1] EXCEPT !.children = q \o @]>> \o Tail(old)
                  ELSE <<List(q)>> \o old

\* 1-based index of the last top-level List, or the number of root children
\* when there is none
AfterLastList(children) ==
    IF \E i \in 1..Len(children) : IsList(children[i])
    THEN Max({i \in 1..Len(children) : IsList(children[i])})
    ELSE Len(children)

IsMarker(node) ==
    /\ node.type = "heading"
    /\ node.depth = ArchivedDepth
    /\ node.children = <<Text(ArchivedText)>>

\* C20: the root child a pass takes as the Archived section marker is a
\* level-2 heading whose content is exactly the text Archived, and a
\* document without such a root child gets the heading synthesized.
C20_ExactMarkerOnly ==
    Ran => /\ HasArchived(input) => IsMarker(input[HeadingIndex(input)])
           /\ (~\E i \in 1..Len(input) : IsMarker(input[i]))
                  => Cardinality({i \in 1..Len(result.children) :
                                     IsMarker(result.children[i])}) = 1

-----------------------------------------------------------------------------
(* Serializer properties: fences, list markers and tables                   *)

\* the tree that was rendered is one root child drawn from the set cases
RenderedCase(cases) == WasRendered /\ Len(tree) = 1 /\ tree[1] \in cases

\* the length of the longest run of the character c in s
LongestRun(s, c) ==
    Max({0} \cup {k \in 1..Len(s) :
                     \E i \in 1..(Len(s) - k + 1) :
                         \A j \in i..(i + k - 1) : s[j] = c})

\* C21: an inline code is rendered between two fences of 1 + the longest run
\* of backticks of its value, wherever in the value that run is.
C21_FenceLength ==
    RenderedCase(InlineCodeCases) =>
        LET v == tree[1].children[1].value
            fence == Repeat(Backtick, 1 + LongestRun(v, Backtick))
        IN  rendered = Ok(fence \o v \o fence \o <<NL>>)

\* what a child of an ordered list is rendered as, marker being the number
\* of the item: the lines of the item and of the list nested in it
ExpectedLines(child, marker) ==
    IF child.type # "listItem" THEN << <<"t">> >>
    ELSE << Digits(marker) \o <<".", " ">>
               \o (IF child.checked = "true" THEN <<"[", "x", "]", " ">> ELSE <<>>)
               \o <<"t">> >>
         \o (IF Len(child.children) < 2 THEN <<>>
             ELSE LET sub == child.children[2]
                  IN  [k \in 1..Len(sub.children) |->
                          Repeat(" ", 4)
                              \o (IF sub.start = <<>> THEN <<"-">>
                                  ELSE Digits(sub.start[1] + k - 1) \o <<".">>)
                              \o <<" ", "t">>])

\* C22: the k-th ListItem child of an ordered list of start s carries the
\* marker s + k - 1, a child that is not a ListItem takes no number, and a
\* list nested in an item is numbered from its own start, or marked with a
\* hyphen, without the outer numbering being changed by it.
C22_OrderedMarkers ==
    RenderedCase(OrderedCases) =>
        LET l == tree[1]
            marker(i) ==
                l.start[1] + Cardinality({j \in 1..i :
                                             l.children[j].type = "listItem"}) - 1
        IN  /\ ~rendered.panic
            /\ Lines(rendered.s)
                   = Concat([i \in 1..Len(l.children) |->
                                ExpectedLines(l.children[i], marker(i))])

\* C22 witness: an ordered list of start 9 was rendered whose children are
\* an item over a nested ordered list, a child that is not a ListItem, and
\* an item.
C22_Witness ==
    /\ RenderedCase(OrderedCases)
    /\ ~rendered.panic
    /\ tree[1].start = <<9>>
    /\ Len(tree[1].children) = 3
    /\ tree[1].children[1].type = "listItem"
    /\ Len(tree[1].children[1].children) = 2
    /\ tree[1].children[1].children[2].start # <<>>
    /\ tree[1].children[2].type # "listItem"
    /\ tree[1].children[3].type = "listItem"

\* a line made of the characters of a delimiter row, with a hyphen in it
IsDelimLine(line) ==
    /\ \A i \in 1..Len(line) : line[i] \in {"|", " ", "-", ":"}
    /\ \E i \in 1..Len(line) : line[i] = "-"

\* C23: a table is rendered as one line per row and one delimiter row, the
\* delimiter row being the second line, whatever the number of rows and of
\* cells in a row.
C23_DelimiterOnce ==
    RenderedCase(TableCases) =>
        LET ls == Lines(rendered.s)
        IN  /\ ~rendered.panic
            /\ Len(ls) = Len(tree[1].children) + 1
            /\ \A i \in 1..Len(ls) : IsDelimLine(ls[i]) <=> i = 2

\* C23 witness: a table of three rows was rendered, one row with fewer cells
\* than columns and one with more.
C23_Witness ==
    /\ RenderedCase(TableCases)
    /\ ~rendered.panic
    /\ Len(tree[1].children) = 3
    /\ \E r \in 1..3 : Len(tree[1].children[r].children) < Len(tree[1].align)
    /\ \E r \in 1..3 : Len(tree[1].children[r].children) > Len(tree[1].align)

\* the least width of a column: that of its alignment marker
MarkerWidth(align) ==
    CASE align = "left" -> 2
      [] align = "center" -> 3
      [] align = "right" -> 2
      [] OTHER -> 1

\* the display width of what a cell holds
CellWidth(cell) ==
    IF cell.children = <<>> THEN 0 ELSE UnicodeWidth(cell.children[1].value)

\* the width of column c of table t: the largest of the marker's width and
\* the display widths of the column's cells
ColumnWidth(t, c) ==
    Max({MarkerWidth(t.align[c])}
        \cup {CellWidth(t.children[r].children[c]) :
                 r \in {x \in 1..Len(t.children) :
                           c <= Len(t.children[x].children)}})

RECURSIVE SumTo(_, _, _)
SumTo(t, c, acc) ==
    IF c = 0 THEN acc ELSE SumTo(t, c - 1, acc + ColumnWidth(t, c) + 3)

\* the delimiter of column c of table t
ExpectedDelim(t, c) ==
    LET w == ColumnWidth(t, c)
    IN  CASE t.align[c] = "left" -> <<":">> \o Repeat("-", w - 1)
          [] t.align[c] = "center" -> <<":">> \o Repeat("-", w - 2) \o <<":">>
          [] t.align[c] = "right" -> Repeat("-", w - 1) \o <<":">>
          [] OTHER -> Repeat("-", w)

\* the position in the rendered lines of row r
RowLine(r) == IF r = 1 THEN 1 ELSE r + 1

\* C24: the width of a column is the largest of its alignment marker's width
\* and the display widths of its cells: no subtraction goes below zero (the
\* table is rendered), the delimiter of each column has that width, and
\* every row is as wide as its cells' columns, each cell padded to the width
\* of its column.
C24_ColumnWidth ==
    RenderedCase(TableCases) =>
        LET t == tree[1]
            n == Len(t.align)
            ls == Lines(rendered.s)
            cells(r) == IF Len(t.children[r].children) < n
                        THEN Len(t.children[r].children) ELSE n
        IN  /\ ~rendered.panic
            /\ \A c \in 1..n : ColumnWidth(t, c) >= MarkerWidth(t.align[c])
            /\ ls[2] = <<"|", " ">>
                          \o JoinStr([c \in 1..n |-> ExpectedDelim(t, c)],
                                     <<" ", "|", " ">>)
                          \o <<" ", "|">>
            /\ \A r \in 1..Len(t.children) :
                  UnicodeWidth(ls[RowLine(r)]) = SumTo(t, cells(r), 0) + 1

\* C24 witness: a table was rendered in which the width of one column is
\* that of a cell wider than the alignment marker and the width of another
\* is that of its marker, its cells being narrower.
C24_Witness ==
    /\ RenderedCase(TableCases)
    /\ ~rendered.panic
    /\ Len(tree[1].align) = 2
    /\ ColumnWidth(tree[1], 1) > MarkerWidth(tree[1].align[1])
    /\ ColumnWidth(tree[1], 2) = MarkerWidth(tree[1].align[2])
    /\ \E r \in 1..Len(tree[1].children) :
          /\ Len(tree[1].children[r].children) >= 2
          /\ CellWidth(tree[1].children[r].children[2])
                 < MarkerWidth(tree[1].align[2])

-----------------------------------------------------------------------------
(* The walk and the temporary files: properties                             *)

TmpPaths == Paths \ {Path(f) : f \in Files}

\* C25: no temporary file is yielded by the walk as a vault document, so
\* only the markdown files present when the command started are read,
\* transformed and written; and when nothing failed no temporary file is in
\* the vault once the command has ended.
C25_TmpNeverPickedUp ==
    /\ \A f \in Files : tpc[f] = "unseen"
    /\ (exited /\ ~panicked /\ \A f \in Files : failed[f] = "none")
           => \A p \in TmpPaths : ~fs[p].exists

-----------------------------------------------------------------------------
(* Archival properties: what the classifier inspects                        *)

\* C26: a top-level item before the heading is archived exactly when no
\* unchecked list item is reached from it through List and ListItem nesting;
\* what sits inside a node of another kind is not inspected.
C26_OnlyAlongLists ==
    Ran => \A item \in SourceItems(input) :
              ArchivedNow(item) <=> ~HasUncheckedAlongLists(item)

\* C26 witness: a pass archived a checked item that holds an unchecked list
\* item inside a block quote.
C26_Witness ==
    /\ Ran
    /\ \E item \in SourceItems(input) :
          /\ item.checked = "true"
          /\ \E i \in 1..Len(item.children) :
                /\ item.children[i].type = "blockquote"
                /\ HasUncheckedItem(item.children[i])
          /\ ArchivedNow(item)

-----------------------------------------------------------------------------
(* Changes properties                                                       *)

\* the cut sections of the recorded changes, by index in the record
Cuts(chs) == {i \in 1..Len(chs) : chs[i].kind = "CutPaste"}

\* the offsets of the characters of a section
Offsets(section) == section.start..(section.end - 1)

\* the sections and positions are within the content, the cut sections are
\* pairwise disjoint, and no paste or insert position is strictly inside a
\* cut section or at the start of one
ValidChanges(str, chs) ==
    /\ \A i \in Cuts(chs) :
          chs[i].section.start <= chs[i].section.end
              /\ chs[i].section.end <= Len(str)
    /\ \A i \in 1..Len(chs) : chs[i].position.at <= Len(str)
    /\ \A i, j \in Cuts(chs) :
          i # j => Offsets(chs[i].section) \cap Offsets(chs[j].section) = {}
    /\ \A i \in 1..Len(chs), j \in Cuts(chs) :
          /\ ~(chs[j].section.start < chs[i].position.at
                  /\ chs[i].position.at < chs[j].section.end)
          /\ chs[i].position.at # chs[j].section.start

\* what the changes from the i-th on add at the offset at, in record order
RECURSIVE AddedAt(_, _, _, _)
AddedAt(str, chs, i, at) ==
    IF i > Len(chs) THEN <<>>
    ELSE (IF chs[i].position.at # at THEN <<>>
          ELSE IF chs[i].kind = "Insert" THEN chs[i].content
          ELSE SubSeq(str, chs[i].section.start + 1, chs[i].section.end))
         \o AddedAt(str, chs, i + 1, at)

\* the content from the offset at on with every cut section left out and
\* every addition put in at its position
RECURSIVE Edited(_, _, _)
Edited(str, chs, at) ==
    IF at > Len(str) THEN <<>>
    ELSE AddedAt(str, chs, 1, at)
         \o (IF at < Len(str)
                 /\ ~\E j \in Cuts(chs) : at \in Offsets(chs[j].section)
             THEN <<str[at + 1]>> ELSE <<>>)
         \o Edited(str, chs, at + 1)

\* C27: for changes that are valid in that sense compute_new_content fails
\* no assertion and returns the content with each cut section removed and
\* put in at its paste position, the additions at one position in record
\* order, and one trailing newline removed; with no change it returns the
\* content as it is.
C27_NewContent ==
    (cstep = "computed" /\ ValidChanges(ccontent, changes)) =>
        /\ ~cresult.panic
        /\ cresult.s = IF changes = <<>> THEN ccontent
                       ELSE Lint(Edited(ccontent, changes, 0))

====
